---- MODULE Spec2Model ----
(***************************************************************************)
(* Express-Jobly: the Company and Job repositories (models/company.js,     *)
(* models/job.js), the GET /jobs route and the relational store they talk  *)
(* to.  The store is a pair of tables; every repository method is          *)
(* translated statement by statement, the SQL it sends is kept as a        *)
(* structured statement (conditions, placeholders, parameters) and is      *)
(* executed by the Db* operators with SQL's three-valued comparisons.      *)
(***************************************************************************)
EXTENDS Integers, Sequences, FiniteSets, TLC

VARIABLES
    companies,   \* table companies: a set of rows, handle is the primary key
    jobs,        \* table jobs: a set of rows, id is the serial primary key
    nextId,      \* next value of the jobs id sequence
    fkPolicy,    \* jobs.company_handle -> companies: "cascade" or "restrict"
    pending,     \* requests in flight: slot -> call received / position in it
    last         \* outcome of the call that completed last

vars == <<companies, jobs, nextId, fkPolicy, pending, last>>

-----------------------------------------------------------------------------
(* Bounds of the model.                                                    *)

MaxJobs == 2          \* rows of table jobs (main specification)
MaxSearchJobs == 2    \* rows of table jobs (search specification)
MaxFields == 2        \* fields named by one update call

-----------------------------------------------------------------------------
(* JavaScript / SQL values.  A value is a tagged record; strings are       *)
(* sequences of one-character strings so that template literals, ILIKE     *)
(* and parseInt can be computed.                                           *)

Undef == [t |-> "undef"]
Null == [t |-> "null"]
Num(n) == [t |-> "num", v |-> n]
Str(s) == [t |-> "str", v |-> s]
Bool(b) == [t |-> "bool", v |-> b]

\* the company handles of the model
H1 == Str(<<"c", "1">>)
H2 == Str(<<"c", "2">>)
Handles == {H1, H2}

sTrue == <<"t", "r", "u", "e">>
sFalse == <<"f", "a", "l", "s", "e">>

\* JavaScript truthiness, as used by `if (queryParams.x)`.
Truthy(x) ==
    CASE x.t = "undef" -> FALSE
      [] x.t = "null" -> FALSE
      [] x.t = "bool" -> x.v
      [] x.t = "num" -> x.v # 0
      [] x.t = "str" -> x.v # <<>>

DigitChar(d) ==
    CASE d = 0 -> "0" [] d = 1 -> "1" [] d = 2 -> "2" [] d = 3 -> "3"
      [] d = 4 -> "4" [] d = 5 -> "5" [] d = 6 -> "6" [] d = 7 -> "7"
      [] d = 8 -> "8" [] d = 9 -> "9"

DigitVal(c) == CHOOSE d \in 0..9 : DigitChar(d) = c

IsDigit(c) == \E d \in 0..9 : DigitChar(d) = c

RECURSIVE NatToStr(_)
NatToStr(n) == IF n < 10 THEN <<DigitChar(n)>>
               ELSE NatToStr(n \div 10) \o <<DigitChar(n % 10)>>

\* String(x) of a template literal `${x}`.
ToStr(x) ==
    CASE x.t = "str" -> x.v
      [] x.t = "num" -> NatToStr(x.v)
      [] x.t = "bool" -> IF x.v THEN sTrue ELSE sFalse
      [] x.t = "null" -> <<"n", "u", "l", "l">>
      [] x.t = "undef" -> <<"u", "n", "d", "e", "f", "i", "n", "e", "d">>

RECURSIVE DigitsVal(_, _)
DigitsVal(s, acc) ==
    IF s = <<>> \/ ~IsDigit(Head(s)) THEN acc
    ELSE DigitsVal(Tail(s), 10 * acc + DigitVal(Head(s)))

\* parseInt(x): the leading decimal digits of String(x); -1 stands for NaN,
\* which compares false with everything.
NaN == 0 - 1
ParseInt(x) ==
    LET s == ToStr(x)
    IN IF s = <<>> \/ ~IsDigit(Head(s)) THEN NaN ELSE DigitsVal(s, 0)

\* a >= b on two parseInt results
JsGeq(a, b) == a # NaN /\ b # NaN /\ a >= b

Lower(c) ==
    CASE c = "J" -> "j" [] c = "X" -> "x" [] c = "A" -> "a" [] c = "B" -> "b"
      [] OTHER -> c

\* s ILIKE p: % matches any run of characters, _ any one character, every
\* other character matches itself up to case.
RECURSIVE LikeMatch(_, _)
LikeMatch(s, p) ==
    IF p = <<>> THEN s = <<>>
    ELSE IF Head(p) = "%"
         THEN LikeMatch(s, Tail(p)) \/ (s # <<>> /\ LikeMatch(Tail(s), p))
         ELSE /\ s # <<>>
              /\ (Head(p) = "_" \/ Lower(Head(p)) = Lower(Head(s)))
              /\ LikeMatch(Tail(s), Tail(p))

\* A query parameter as the server reads it for an integer/numeric column:
\* undefined and null are sent as NULL, a number as itself, a string of
\* digits as the number it spells.
PgNum(x) ==
    CASE x.t = "num" -> x
      [] x.t = "str" /\ x.v # <<>> /\ (\A i \in 1..Len(x.v) : IsDigit(x.v[i]))
            -> Num(DigitsVal(x.v, 0))
      [] x.t \in {"undef", "null"} -> Null
      [] OTHER -> [t |-> "invalid"]

PgText(x) ==
    CASE x.t = "str" -> x
      [] x.t \in {"undef", "null"} -> Null
      [] OTHER -> Str(ToStr(x))

\* equity is NUMERIC; the model keeps it in tenths (5 is 0.5, 10 is 1).  The
\* driver hands a NUMERIC column back as a string: "0", "0.5", "1".
NumericOut(x) ==
    IF x.t = "null" THEN Null
    ELSE IF x.v % 10 = 0 THEN Str(NatToStr(x.v \div 10))
    ELSE Str(NatToStr(x.v \div 10) \o <<".">> \o NatToStr(x.v % 10))


-----------------------------------------------------------------------------
(* The store: statements and their execution.                              *)
(* A condition is [col, op, ph, lit]: column, comparison, placeholder      *)
(* number ($ph) or, when ph = 0, the literal lit written in the text.      *)

Cond(col, op, ph, lit) == [col |-> col, op |-> op, ph |-> ph, lit |-> lit]

Placeholders(conds) == {conds[i].ph : i \in 1..Len(conds)} \ {0}

\* The server takes a statement only if the placeholders it uses are exactly
\* $1..$n for the n parameters bound to it.
StmtOk(conds, params) == Placeholders(conds) = 1..Len(params)

\* column types of the two tables
ColType(col) ==
    IF col \in {"id", "salary", "equity", "num_employees"} THEN "number"
    ELSE "text"

\* a parameter as the server reads it for column col
Coerce(col, x) == IF ColType(col) = "text" THEN PgText(x) ELSE PgNum(x)

CondArg(c, params) ==
    IF c.ph = 0 THEN Num(c.lit) ELSE Coerce(c.col, params[c.ph])

\* SQL comparison: anything compared with NULL is not true.
CondHolds(row, c, params) ==
    LET colv == row[c.col]
        arg == CondArg(c, params)
    IN /\ colv.t # "null"
       /\ arg.t # "null"
       /\ CASE c.op = "ILIKE" -> LikeMatch(colv.v, arg.v)
            [] c.op = ">=" -> colv.v >= arg.v
            [] c.op = "<=" -> colv.v <= arg.v
            [] c.op = ">" -> colv.v > arg.v
            [] c.op = "=" -> colv.v = arg.v
            [] OTHER -> FALSE

\* SELECT ... FROM tbl [WHERE c1 AND c2 ...]: the rows every condition keeps.
DbSelect(tbl, conds, params) ==
    {r \in tbl : \A i \in 1..Len(conds) : CondHolds(r, conds[i], params)}

CharRank(c) ==
    CASE c = "a" -> 1 [] c = "A" -> 2 [] c = "b" -> 3 [] c = "B" -> 4
      [] c = "j" -> 5 [] c = "J" -> 6 [] c = "x" -> 7 [] c = "X" -> 8
      [] OTHER -> 0

RECURSIVE StrLeq(_, _)
StrLeq(a, b) ==
    IF a = <<>> THEN TRUE
    ELSE IF b = <<>> THEN FALSE
    ELSE IF Head(a) = Head(b) THEN StrLeq(Tail(a), Tail(b))
    ELSE CharRank(Head(a)) <= CharRank(Head(b))

\* ORDER BY col: every order of the rows of S that is ascending in col (rows
\* with equal keys come in any order).
OrderBy(S, col) ==
    {q \in [1..Cardinality(S) -> S] :
        /\ \A i, j \in 1..Cardinality(S) : i # j => q[i] # q[j]
        /\ \A i, j \in 1..Cardinality(S) :
              i < j => StrLeq(q[i][col].v, q[j][col].v)}

\* A jobs row as the driver returns it for
\* SELECT id, title, salary, equity, company_handle.
JobRowOut(r) ==
    [id |-> r.id, title |-> r.title, salary |-> r.salary,
     equity |-> NumericOut(r.equity), company_handle |-> r.company_handle]

\* A companies row as returned for
\* SELECT handle, name, description, num_employees AS "numEmployees",
\*        logo_url AS "logoUrl".
CompanyRowOut(r) ==
    [handle |-> r.handle, name |-> r.name, description |-> r.description,
     numEmployees |-> r.num_employees, logoUrl |-> r.logo_url]

-----------------------------------------------------------------------------
(* Search: Job.findAll (models/job.js), its hasEquity variant,             *)
(* Company.findAll and GET /jobs.                                          *)

\* the parameter of an ILIKE condition: `%${value}%`
LikeParam(x) == Str(<<"%">> \o ToStr(x) \o <<"%">>)

\* Job.findAll: the conditions and values built from queryParams.
JobFindAllEquityFalseFilters(qp) ==
    LET v1 == IF Truthy(qp.title) THEN <<LikeParam(qp.title)>> ELSE <<>>
        c1 == IF Truthy(qp.title)
              THEN <<Cond("title", "ILIKE", Len(v1), 0)>> ELSE <<>>
        v2 == IF Truthy(qp.minSalary) THEN Append(v1, qp.minSalary) ELSE v1
        c2 == IF Truthy(qp.minSalary)
              THEN Append(c1, Cond("salary", ">=", Len(v2), 0)) ELSE c1
        c3 == IF Truthy(qp.equity) /\ qp.equity = Str(sTrue)
              THEN Append(c2, Cond("equity", ">", 0, 0))
              ELSE IF qp.equity \in {Bool(FALSE), Str(sFalse)}
                   THEN Append(c2, Cond("equity", "=", 0, 0))
                   ELSE c2
    IN [conditions |-> c3, values |-> v2]

\* Job.findAll numbering the salary placeholder $1 whatever was pushed before
JobFindAllFixedIndex(qp) ==
    LET v1 == IF Truthy(qp.title) THEN <<LikeParam(qp.title)>> ELSE <<>>
        c1 == IF Truthy(qp.title)
              THEN <<Cond("title", "ILIKE", Len(v1), 0)>> ELSE <<>>
        v2 == IF Truthy(qp.minSalary) THEN Append(v1, qp.minSalary) ELSE v1
        c2 == IF Truthy(qp.minSalary)
              THEN Append(c1, Cond("salary", ">=", 1, 0)) ELSE c1
        c3 == IF Truthy(qp.equity) /\ qp.equity = Str(sTrue)
              THEN Append(c2, Cond("equity", ">", 0, 0))
              ELSE c2
    IN [conditions |-> c3, values |-> v2]

JobFindAllBuild(qp) ==
    LET v1 == IF Truthy(qp.title) THEN <<LikeParam(qp.title)>> ELSE <<>>
        c1 == IF Truthy(qp.title)
              THEN <<Cond("title", "ILIKE", Len(v1), 0)>> ELSE <<>>
        v2 == IF Truthy(qp.minSalary) THEN Append(v1, qp.minSalary) ELSE v1
        c2 == IF Truthy(qp.minSalary)
              THEN Append(c1, Cond("salary", ">=", Len(v2), 0)) ELSE c1
        c3 == IF Truthy(qp.equity) /\ qp.equity = Str(sTrue)
              THEN Append(c2, Cond("equity", ">", 0, 0))
              ELSE c2
    IN [conditions |-> c3, values |-> v2]

\* Job.findAll of the variant that reads queryParams.hasEquity.
JobFindAllVariantBuild(qp) ==
    LET v1 == IF Truthy(qp.title) THEN <<LikeParam(qp.title)>> ELSE <<>>
        c1 == IF Truthy(qp.title)
              THEN <<Cond("title", "ILIKE", Len(v1), 0)>> ELSE <<>>
        v2 == IF Truthy(qp.minSalary) THEN Append(v1, qp.minSalary) ELSE v1
        c2 == IF Truthy(qp.minSalary)
              THEN Append(c1, Cond("salary", ">=", Len(v2), 0)) ELSE c1
        c3 == IF Truthy(qp.hasEquity)
              THEN IF qp.hasEquity = Str(sTrue)
                   THEN Append(c2, Cond("equity", ">", 0, 0))
                   ELSE IF qp.hasEquity = Str(sFalse)
                        THEN Append(c2, Cond("equity", "=", 0, 0))
                        ELSE c2
              ELSE Append(c2, Cond("equity", "=", 0, 0))
    IN [conditions |-> c3, values |-> v2]

\* The SELECT a findAll sends: WHERE is written when a condition exists.
SelectStmt(table, b, orderBy) ==
    [kind |-> "select", table |-> table, set |-> <<>>,
     hasWhere |-> Len(b.conditions) > 0, conds |-> b.conditions,
     params |-> b.values, orderBy |-> orderBy]

\* Company.findAll: the range check that precedes the query.
CompanyFindAllRangeError(qp) ==
    /\ Truthy(qp.minEmployees) /\ Truthy(qp.maxEmployees)
    /\ JsGeq(ParseInt(qp.minEmployees), ParseInt(qp.maxEmployees))

CompanyFindAllBuild(qp) ==
    LET v1 == IF Truthy(qp.nameLike) THEN <<LikeParam(qp.nameLike)>> ELSE <<>>
        c1 == IF Truthy(qp.nameLike)
              THEN <<Cond("name", "ILIKE", Len(v1), 0)>> ELSE <<>>
        v2 == IF Truthy(qp.minEmployees)
              THEN Append(v1, qp.minEmployees) ELSE v1
        c2 == IF Truthy(qp.minEmployees)
              THEN Append(c1, Cond("num_employees", ">=", Len(v2), 0)) ELSE c1
        v3 == IF Truthy(qp.maxEmployees)
              THEN Append(v2, qp.maxEmployees) ELSE v2
        c3 == IF Truthy(qp.maxEmployees)
              THEN Append(c2, Cond("num_employees", "<=", Len(v3), 0)) ELSE c2
    IN [conditions |-> c3, values |-> v3]

\* GET /jobs: the route hands title, minSalary and equity of the query string
\* to Job.findAll.
RouteJobsQueryParams(query) ==
    [title |-> query.title, minSalary |-> query.minSalary,
     equity |-> query.equity]


-----------------------------------------------------------------------------
(* Calls and their outcomes.                                               *)

Slots == {1, 2}

Idle == [pc |-> "idle"]

Call(op, args) == [pc |-> "call", op |-> op, args |-> args]

\* the outcome of a completed call: error kind ("none" on success), returned
\* value, and the statements it sent to the store, in order
Outcome(op, args, err, ret, stmts) ==
    [op |-> op, args |-> args, err |-> err, ret |-> ret, stmts |-> stmts]

NoCall == Outcome("none", <<>>, "none", <<>>, <<>>)

ArgsOk(conds, params) ==
    \A i \in 1..Len(conds) : CondArg(conds[i], params).t # "invalid"

\* db.query of a findAll SELECT on table tbl: the possible results.
RowOut(table, r) == IF table = "jobs" THEN JobRowOut(r) ELSE CompanyRowOut(r)

FindAllOutcomes(op, args, tbl, stmt) ==
    IF ~StmtOk(stmt.conds, stmt.params) \/ ~ArgsOk(stmt.conds, stmt.params)
    THEN {Outcome(op, args, "StoreError", <<>>, <<stmt>>)}
    ELSE {Outcome(op, args, "none", [i \in DOMAIN q |-> RowOut(stmt.table, q[i])], <<stmt>>) :
            q \in OrderBy(DbSelect(tbl, stmt.conds, stmt.params), stmt.orderBy)}

-----------------------------------------------------------------------------
(* Statements that write, and the joins of getByKey.                       *)

Stmt(kind, table, set, conds, params) ==
    [kind |-> kind, table |-> table, set |-> set, hasWhere |-> Len(conds) > 0,
     conds |-> conds, params |-> params, orderBy |-> ""]

SetTerm(col, ph) == [col |-> col, ph |-> ph]

StmtPlaceholders(stmt) ==
    {stmt.set[i].ph : i \in 1..Len(stmt.set)} \cup Placeholders(stmt.conds)

Columns(table) ==
    IF table = "jobs" THEN {"id", "title", "salary", "equity", "company_handle"}
    ELSE {"handle", "name", "description", "num_employees", "logo_url"}

\* columns declared NOT NULL
NotNull(table) ==
    IF table = "jobs" THEN {"id", "title", "company_handle"}
    ELSE {"handle", "name", "description"}

\* The server takes a writing statement when its placeholders are exactly
\* $1..$n, its columns exist, and every value fits its column.
WriteOk(stmt) ==
    /\ StmtPlaceholders(stmt) = 1..Len(stmt.params)
    /\ stmt.kind = "update" => Len(stmt.set) > 0
    /\ \A i \in 1..Len(stmt.set) :
          /\ stmt.set[i].col \in Columns(stmt.table)
          /\ Coerce(stmt.set[i].col, stmt.params[stmt.set[i].ph]).t # "invalid"
          /\ stmt.set[i].col \in NotNull(stmt.table) =>
                Coerce(stmt.set[i].col, stmt.params[stmt.set[i].ph]).t # "null"
    /\ ArgsOk(stmt.conds, stmt.params)

\* SET that passes over the terms whose value is null
RECURSIVE ApplySetSkipNull(_, _, _)
ApplySetSkipNull(row, set, params) ==
    IF set = <<>> THEN row
    ELSE ApplySetSkipNull(
             IF params[Head(set).ph] = Null THEN row
             ELSE [row EXCEPT ![Head(set).col] =
                      Coerce(Head(set).col, params[Head(set).ph])],
             Tail(set), params)

RECURSIVE ApplySet(_, _, _)
ApplySet(row, set, params) ==
    IF set = <<>> THEN row
    ELSE ApplySet([row EXCEPT ![Head(set).col] =
                       Coerce(Head(set).col, params[Head(set).ph])],
                  Tail(set), params)

\* UPDATE tbl SET ... WHERE ... RETURNING ...: the table after it and the rows
\* it changed.
DbUpdate(tbl, stmt) ==
    IF ~WriteOk(stmt) THEN [err |-> "StoreError", tbl |-> tbl, rows |-> {}]
    ELSE LET hit == DbSelect(tbl, stmt.conds, stmt.params)
         IN [err |-> "none",
             tbl |-> (tbl \ hit) \cup {ApplySet(r, stmt.set, stmt.params) : r \in hit},
             rows |-> {ApplySet(r, stmt.set, stmt.params) : r \in hit}]

\* the row INSERT INTO tbl (set columns) VALUES (...) writes; id is the value
\* drawn from the sequence for a serial key (Null when the table has none)
InsertedRow(stmt, id) ==
    LET base == IF stmt.table = "jobs"
                THEN [id |-> id, title |-> Null, salary |-> Null,
                      equity |-> Null, company_handle |-> Null]
                ELSE [handle |-> Null, name |-> Null, description |-> Null,
                      num_employees |-> Null, logo_url |-> Null]
    IN ApplySet(base, stmt.set, stmt.params)

\* all orders of a set of rows (a join without ORDER BY)
AnyOrder(S) ==
    {q \in [1..Cardinality(S) -> S] :
        \A i, j \in 1..Cardinality(S) : i # j => q[i] # q[j]}

\* companies AS c LEFT JOIN jobs AS j ON c.handle = j.company_handle
\* WHERE handle = $1: one row per job of the company, or one row with the
\* job columns NULL when it has none.
CompanyJoinRow(c, j) ==
    [handle |-> c.handle, name |-> c.name, description |-> c.description,
     num_employees |-> c.num_employees, logo_url |-> c.logo_url,
     id |-> j.id, title |-> j.title, salary |-> j.salary,
     equity |-> NumericOut(j.equity), company_handle |-> j.company_handle]

NullJob ==
    [id |-> Null, title |-> Null, salary |-> Null, equity |-> Null,
     company_handle |-> Null]

NullCompany ==
    [handle |-> Null, name |-> Null, description |-> Null,
     num_employees |-> Null, logo_url |-> Null]

KeyMatches(col, v, key) ==
    LET k == Coerce(col, key) IN v.t # "null" /\ k.t # "null" /\ v = k

CompanyJoin(handleData, cs, js) ==
    UNION {LET mine == {j \in js : j.company_handle = c.handle}
           IN IF mine = {} THEN {<<CompanyJoinRow(c, NullJob)>>}
              ELSE AnyOrder({CompanyJoinRow(c, j) : j \in mine}) :
           c \in {x \in cs : KeyMatches("handle", x.handle, handleData)}}

\* jobs AS j LEFT JOIN companies AS c ON j.company_handle = c.handle
\* WHERE id = $1
JobJoinRow(j, c) ==
    [id |-> j.id, title |-> j.title, salary |-> j.salary,
     equity |-> NumericOut(j.equity), handle |-> c.handle, name |-> c.name,
     description |-> c.description, num_employees |-> c.num_employees,
     logo_url |-> c.logo_url]

JobJoin(idData, cs, js) ==
    UNION {LET mine == {c \in cs : c.handle = j.company_handle}
           IN IF mine = {} THEN {<<JobJoinRow(j, NullCompany)>>}
              ELSE AnyOrder({JobJoinRow(j, c) : c \in mine}) :
           j \in {x \in js : KeyMatches("id", x.id, idData)}}

-----------------------------------------------------------------------------
(* The repositories.  A handler maps its arguments and the store st =      *)
(* [companies, jobs, nextId, fkPolicy] to the set of its possible results  *)
(* [out, companies, jobs, nextId].                                         *)

Result(out, cs, js, n) ==
    [out |-> out, companies |-> cs, jobs |-> js, nextId |-> n]

\* a call that ends without changing the store
Reads(out, st) == Result(out, st.companies, st.jobs, st.nextId)

\* Identifier Mapper: the physical column of a logical field name
MapField(name, overrides) ==
    IF name \in DOMAIN overrides THEN overrides[name] ELSE name

\* sqlForPartialUpdate(dataToUpdate, jsToSql); dataToUpdate is the mapping in
\* insertion order, a sequence of [k |-> field, v |-> value].
SqlForPartialUpdate(data, jsToSql) ==
    IF Len(data) = 0
    THEN [err |-> "BadRequestError", setCols |-> <<>>, values |-> <<>>]
    ELSE [err |-> "none",
          setCols |-> [i \in 1..Len(data) |->
                          SetTerm(MapField(data[i].k, jsToSql), i)],
          values |-> [i \in 1..Len(data) |-> data[i].v]]

JobJsToSql == [title |-> "title", salary |-> "salary", equity |-> "equity"]

CompanyJsToSql == [numEmployees |-> "num_employees", logoUrl |-> "logo_url"]

Store(cs, js, n, fk) ==
    [companies |-> cs, jobs |-> js, nextId |-> n, fkPolicy |-> fk]

KeyArgs(key) == [key |-> key]
UpdateArgs(key, data) == [key |-> key, data |-> data]

\* the key placeholder numbered like the last field instead of after it
IdVarIdxOffByOne(values) == Len(values)

\* "$" + (values.length + 1): the placeholder of the key in the WHERE clause
IdVarIdx(values) == Len(values) + 1

\* the UPDATE written without its WHERE clause
UpdateStmtNoWhere(table, keyCol, b, key) ==
    Stmt("update", table, b.setCols, <<>>, b.values)

\* the UPDATE that update() sends for the builder's output b
UpdateStmt(table, keyCol, b, key) ==
    Stmt("update", table, b.setCols,
         <<Cond(keyCol, "=", IdVarIdx(b.values), 0)>>, Append(b.values, key))

\* jobs that reference no company of cs (the foreign key of jobs)
Orphans(cs, js) == {j \in js : ~\E c \in cs : c.handle = j.company_handle}

\* the key column keeps one row per key after a write on a table of n rows
KeysKept(tbl, keyCol, n) == Cardinality({r[keyCol] : r \in tbl}) = n

\* Job.update that sends its UPDATE whatever the builder answered
JobUpdateUnguarded(id, data, st) ==
    LET b == SqlForPartialUpdate(data, JobJsToSql)
        stmt == UpdateStmt("jobs", "id", b, id)
        r == DbUpdate(st.jobs, stmt)
        Out(err, ret, stmts) == Outcome("Job.update", UpdateArgs(id, data), err, ret, stmts)
    IN IF r.err # "none" THEN {Reads(Out(r.err, <<>>, <<stmt>>), st)}
       ELSE IF r.rows = {} THEN {Reads(Out("NotFoundError", <<>>, <<stmt>>), st)}
       ELSE {Result(Out("none", JobRowOut(CHOOSE x \in r.rows : TRUE), <<stmt>>),
                    st.companies, r.tbl, st.nextId)}

\* Job.update(id, data)
JobUpdate(id, data, st) ==
    LET b == SqlForPartialUpdate(data, JobJsToSql)
        stmt == UpdateStmt("jobs", "id", b, id)
        r == DbUpdate(st.jobs, stmt)
        Out(err, ret, stmts) == Outcome("Job.update", UpdateArgs(id, data), err, ret, stmts)
    IN IF b.err # "none" THEN {Reads(Out(b.err, <<>>, <<>>), st)}
       ELSE IF r.err # "none" THEN {Reads(Out(r.err, <<>>, <<stmt>>), st)}
       ELSE IF r.rows = {} THEN {Reads(Out("NotFoundError", <<>>, <<stmt>>), st)}
       ELSE IF \/ ~KeysKept(r.tbl, "id", Cardinality(st.jobs))
               \/ Orphans(st.companies, r.tbl) # {}
            THEN {Reads(Out("StoreError", <<>>, <<stmt>>), st)}
       ELSE {Result(Out("none", JobRowOut(CHOOSE x \in r.rows : TRUE), <<stmt>>),
                    st.companies, r.tbl, st.nextId)}

\* Company.update(handle, data)
CompanyUpdate(handle, data, st) ==
    LET b == SqlForPartialUpdate(data, CompanyJsToSql)
        stmt == UpdateStmt("companies", "handle", b, handle)
        r == DbUpdate(st.companies, stmt)
        Out(err, ret, stmts) == Outcome("Company.update", UpdateArgs(handle, data), err, ret, stmts)
    IN IF b.err # "none" THEN {Reads(Out(b.err, <<>>, <<>>), st)}
       ELSE IF r.err # "none" THEN {Reads(Out(r.err, <<>>, <<stmt>>), st)}
       ELSE IF r.rows = {} THEN {Reads(Out("NotFoundError", <<>>, <<stmt>>), st)}
       ELSE IF ~KeysKept(r.tbl, "handle", Cardinality(st.companies))
            THEN {Reads(Out("StoreError", <<>>, <<stmt>>), st)}
       ELSE LET new == CHOOSE x \in r.rows : TRUE
                refs == Orphans(r.tbl, st.jobs)
                moved == (st.jobs \ refs) \cup
                            {[j EXCEPT !.company_handle = new.handle] : j \in refs}
                done(js) == Result(Out("none", CompanyRowOut(new), <<stmt>>),
                                   r.tbl, js, st.nextId)
            IN IF refs = {} THEN {done(st.jobs)}
               \* the handle of a company that jobs reference was changed: the
               \* foreign key refuses the UPDATE or carries the jobs along
               ELSE {Reads(Out("StoreError", <<>>, <<stmt>>), st), done(moved)}

DeleteStmt(table, keyCol, key) ==
    Stmt("delete", table, <<>>, <<Cond(keyCol, "=", 1, 0)>>, <<key>>)

\* Job.remove that does not look at the rows the DELETE returned
JobRemoveNoCheck(id, st) ==
    LET stmt == DeleteStmt("jobs", "id", id)
        hit == DbSelect(st.jobs, stmt.conds, stmt.params)
    IN {Result(Outcome("Job.remove", KeyArgs(id), "none", <<>>, <<stmt>>),
               st.companies, st.jobs \ hit, st.nextId)}

\* Job.remove(id)
JobRemove(id, st) ==
    LET stmt == DeleteStmt("jobs", "id", id)
        hit == DbSelect(st.jobs, stmt.conds, stmt.params)
        Out(err) == Outcome("Job.remove", KeyArgs(id), err, <<>>, <<stmt>>)
    IN IF ~WriteOk(stmt) THEN {Reads(Out("StoreError"), st)}
       ELSE IF hit = {} THEN {Reads(Out("NotFoundError"), st)}
       ELSE {Result(Out("none"), st.companies, st.jobs \ hit, st.nextId)}

\* Company.remove(handle).  What the DELETE does to a company that jobs still
\* reference is the store's referential policy: it deletes those jobs too
\* ("cascade") or refuses ("restrict").
CompanyRemove(handle, st) ==
    LET stmt == DeleteStmt("companies", "handle", handle)
        hit == DbSelect(st.companies, stmt.conds, stmt.params)
        refs == {j \in st.jobs : \E c \in hit : j.company_handle = c.handle}
        Out(err) == Outcome("Company.remove", KeyArgs(handle), err, <<>>, <<stmt>>)
    IN IF ~WriteOk(stmt) THEN {Reads(Out("StoreError"), st)}
       ELSE IF hit = {} THEN {Reads(Out("NotFoundError"), st)}
       ELSE IF refs # {} /\ st.fkPolicy = "restrict"
            THEN {Reads(Out("StoreError"), st)}
       ELSE {Result(Out("none"), st.companies \ hit, st.jobs \ refs, st.nextId)}

GetStmt(table, keyCol, key) ==
    Stmt("select", table, <<>>, <<Cond(keyCol, "=", 1, 0)>>, <<key>>)

\* a fold that takes every joined row for a job
HasJobAlways(row) == TRUE

HasJob(row) == Truthy(row.id)

JobEntry(row) ==
    [id |-> row.id, title |-> row.title, salary |-> row.salary,
     equity |-> row.equity, companyHandle |-> row.company_handle]

\* Company.get(handle): the joined rows folded into one company with its jobs
CompanyGet(handleData, st) ==
    LET stmt == GetStmt("companies", "handle", handleData)
        joined == CompanyJoin(handleData, st.companies, st.jobs)
        Out(err, ret) == Outcome("Company.get", KeyArgs(handleData), err, ret, <<stmt>>)
        Fold(rows) ==
            LET withJob == SelectSeq(rows, HasJob)
            IN [handle |-> rows[1].handle, name |-> rows[1].name,
                description |-> rows[1].description,
                numEmployees |-> rows[1].num_employees,
                logoUrl |-> rows[1].logo_url,
                jobs |-> [i \in DOMAIN withJob |-> JobEntry(withJob[i])]]
    IN IF ~WriteOk(stmt) THEN {Reads(Out("StoreError", <<>>), st)}
       ELSE IF joined = {} THEN {Reads(Out("NotFoundError", <<>>), st)}
       ELSE {Reads(Out("none", Fold(rows)), st) : rows \in joined}

HasCompany(row) == Truthy(row.handle)

CompanyEntry(row) ==
    [handle |-> row.handle, name |-> row.name, description |-> row.description,
     numEmployees |-> row.num_employees, logoUrl |-> row.logo_url]

\* Job.get(id): the joined rows folded into one job with its companies
JobGet(idData, st) ==
    LET stmt == GetStmt("jobs", "id", idData)
        joined == JobJoin(idData, st.companies, st.jobs)
        Out(err, ret) == Outcome("Job.get", KeyArgs(idData), err, ret, <<stmt>>)
        Fold(rows) ==
            LET withCo == SelectSeq(rows, HasCompany)
            IN [id |-> rows[1].id, title |-> rows[1].title,
                salary |-> rows[1].salary, equity |-> rows[1].equity,
                companies |-> [i \in DOMAIN withCo |-> CompanyEntry(withCo[i])]]
    IN IF ~WriteOk(stmt) THEN {Reads(Out("StoreError", <<>>), st)}
       ELSE IF joined = {} THEN {Reads(Out("NotFoundError", <<>>), st)}
       ELSE {Reads(Out("none", Fold(rows)), st) : rows \in joined}

\* Job.get(id) of the variant without the join.  Its not-found branch builds
\* the message from `handle`, a name the function does not declare, so the
\* throw statement raises a ReferenceError before the NotFoundError exists.
JobGetVariant(id, st) ==
    LET stmt == GetStmt("jobs", "id", id)
        hit == DbSelect(st.jobs, stmt.conds, stmt.params)
        Out(err, ret) == Outcome("Job.get/nojoin", KeyArgs(id), err, ret, <<stmt>>)
    IN IF ~WriteOk(stmt) THEN {Reads(Out("StoreError", <<>>), st)}
       ELSE IF hit = {} THEN {Reads(Out("ReferenceError", <<>>), st)}
       ELSE {Reads(Out("none", JobRowOut(CHOOSE x \in hit : TRUE)), st)}

\* Job.create, first statement: SELECT * FROM jobs WHERE title = $1 AND
\* salary=$2 AND equity=$3 AND company_handle = $4
JobDupCheckStmt(data) ==
    Stmt("select", "jobs", <<>>,
         <<Cond("title", "=", 1, 0), Cond("salary", "=", 2, 0),
           Cond("equity", "=", 3, 0), Cond("company_handle", "=", 4, 0)>>,
         <<data.title, data.salary, data.equity, data.company_handle>>)

JobInsertStmt(data) ==
    Stmt("insert", "jobs",
         <<SetTerm("title", 1), SetTerm("salary", 2), SetTerm("equity", 3),
           SetTerm("company_handle", 4)>>,
         <<>>,
         <<data.title, data.salary, data.equity, data.company_handle>>)

\* dupCheck.rows.length > 0
JobIsDuplicate(data, st) ==
    LET stmt == JobDupCheckStmt(data)
    IN DbSelect(st.jobs, stmt.conds, stmt.params) # {}

\* the INSERT on a store that does not hold jobs to their company
JobInsertUnreferenced(op, data, before, st) ==
    LET stmt == JobInsertStmt(data)
        row == InsertedRow(stmt, Num(st.nextId))
        Out(err, ret) == Outcome(op, data, err, ret, Append(before, stmt))
    IN IF ~WriteOk(stmt) THEN {Reads(Out("StoreError", <<>>), st)}
       ELSE {Result(Out("none", JobRowOut(row)), st.companies,
                    st.jobs \cup {row}, st.nextId + 1)}

\* the INSERT on a store that keeps the tuple (title, salary, equity,
\* company_handle) unique
JobInsertUniqueTuple(op, data, before, st) ==
    LET stmt == JobInsertStmt(data)
        row == InsertedRow(stmt, Num(st.nextId))
        Out(err, ret) == Outcome(op, data, err, ret, Append(before, stmt))
    IN IF ~WriteOk(stmt) THEN {Reads(Out("StoreError", <<>>), st)}
       ELSE IF \/ ~\E c \in st.companies : c.handle = row.company_handle
               \/ JobIsDuplicate(data, st)
            THEN {Result(Out("StoreError", <<>>), st.companies, st.jobs,
                         st.nextId + 1)}
       ELSE {Result(Out("none", JobRowOut(row)), st.companies,
                    st.jobs \cup {row}, st.nextId + 1)}

\* INSERT INTO jobs ... RETURNING ...: the id is drawn from the sequence
\* whether or not the row is accepted; the row must name an existing company.
JobInsert(op, data, before, st) ==
    LET stmt == JobInsertStmt(data)
        row == InsertedRow(stmt, Num(st.nextId))
        Out(err, ret) == Outcome(op, data, err, ret, Append(before, stmt))
    IN IF ~WriteOk(stmt) THEN {Reads(Out("StoreError", <<>>), st)}
       ELSE IF ~\E c \in st.companies : c.handle = row.company_handle
            THEN {Result(Out("StoreError", <<>>), st.companies, st.jobs,
                         st.nextId + 1)}
       ELSE {Result(Out("none", JobRowOut(row)), st.companies,
                    st.jobs \cup {row}, st.nextId + 1)}

\* Job.create(data) run without interruption
JobCreate(data, st) ==
    IF JobIsDuplicate(data, st)
    THEN {Reads(Outcome("Job.create", data, "BadRequestError", <<>>,
                        <<JobDupCheckStmt(data)>>), st)}
    ELSE JobInsert("Job.create", data, <<JobDupCheckStmt(data)>>, st)

\* Job.create(data) of the variant that inserts without a check
JobCreateVariant(data, st) == JobInsert("Job.create/nocheck", data, <<>>, st)

CompanyDupCheckStmt(data) == GetStmt("companies", "handle", data.handle)

\* the INSERT with the parameters of name and description exchanged
CompanyInsertStmtSwapped(data) ==
    Stmt("insert", "companies",
         <<SetTerm("handle", 1), SetTerm("name", 3), SetTerm("description", 2),
           SetTerm("num_employees", 4), SetTerm("logo_url", 5)>>,
         <<>>,
         <<data.handle, data.name, data.description, data.numEmployees,
           data.logoUrl>>)

CompanyInsertStmt(data) ==
    Stmt("insert", "companies",
         <<SetTerm("handle", 1), SetTerm("name", 2), SetTerm("description", 3),
           SetTerm("num_employees", 4), SetTerm("logo_url", 5)>>,
         <<>>,
         <<data.handle, data.name, data.description, data.numEmployees,
           data.logoUrl>>)

\* duplicateCheck.rows[0]
\* a duplicate check that never finds a row
CompanyNeverDuplicate(data, st) == FALSE

CompanyIsDuplicate(data, st) ==
    LET stmt == CompanyDupCheckStmt(data)
    IN DbSelect(st.companies, stmt.conds, stmt.params) # {}

\* INSERT INTO companies ... RETURNING ...: handle is the primary key
CompanyInsert(data, before, st) ==
    LET stmt == CompanyInsertStmt(data)
        row == InsertedRow(stmt, Null)
        Out(err, ret) == Outcome("Company.create", data, err, ret, Append(before, stmt))
    IN IF ~WriteOk(stmt) THEN {Reads(Out("StoreError", <<>>), st)}
       ELSE IF \E c \in st.companies : c.handle = row.handle
            THEN {Reads(Out("StoreError", <<>>), st)}
       ELSE {Result(Out("none", CompanyRowOut(row)), st.companies \cup {row},
                    st.jobs, st.nextId)}

\* Company.create(data) run without interruption
CompanyCreate(data, st) ==
    IF CompanyIsDuplicate(data, st)
    THEN {Reads(Outcome("Company.create", data, "BadRequestError", <<>>,
                        <<CompanyDupCheckStmt(data)>>), st)}
    ELSE CompanyInsert(data, <<CompanyDupCheckStmt(data)>>, st)

-----------------------------------------------------------------------------
(* Actions.                                                                *)

Cur == Store(companies, jobs, nextId, fkPolicy)

\* a call ends: its result is written to the store and reported
Apply(p, res) ==
    /\ companies' = res.companies
    /\ jobs' = res.jobs
    /\ nextId' = res.nextId
    /\ last' = res.out
    /\ pending' = [pending EXCEPT ![p] = Idle]
    /\ UNCHANGED fkPolicy

Finish(p, out) ==
    /\ last' = out
    /\ pending' = [pending EXCEPT ![p] = Idle]

\* Job.findAll({ queryParams })
JobFindAll(p) ==
    /\ pending[p].pc = "call" /\ pending[p].op = "Job.findAll"
    /\ LET qp == pending[p].args
           stmt == SelectStmt("jobs", JobFindAllBuild(qp), "title")
       IN \E out \in FindAllOutcomes("Job.findAll", qp, jobs, stmt) :
             Finish(p, out)
    /\ UNCHANGED <<companies, jobs, nextId, fkPolicy>>

\* Job.findAll({ queryParams }) of the hasEquity variant
JobFindAllVariant(p) ==
    /\ pending[p].pc = "call" /\ pending[p].op = "Job.findAll/hasEquity"
    /\ LET qp == pending[p].args
           stmt == SelectStmt("jobs", JobFindAllVariantBuild(qp), "title")
       IN \E out \in FindAllOutcomes("Job.findAll/hasEquity", qp, jobs, stmt) :
             Finish(p, out)
    /\ UNCHANGED <<companies, jobs, nextId, fkPolicy>>

\* GET /jobs?title=..&minSalary=..&equity=..
RouteGetJobs(p) ==
    /\ pending[p].pc = "call" /\ pending[p].op = "GET /jobs"
    /\ LET query == pending[p].args
           qp == RouteJobsQueryParams(query)
           stmt == SelectStmt("jobs", JobFindAllBuild(qp), "title")
       IN \E out \in FindAllOutcomes("GET /jobs", query, jobs, stmt) :
             Finish(p, out)
    /\ UNCHANGED <<companies, jobs, nextId, fkPolicy>>

\* Company.findAll({ queryParams })
CompanyFindAll(p) ==
    /\ pending[p].pc = "call" /\ pending[p].op = "Company.findAll"
    /\ LET qp == pending[p].args
           stmt == SelectStmt("companies", CompanyFindAllBuild(qp), "name")
       IN IF CompanyFindAllRangeError(qp)
          THEN Finish(p, Outcome("Company.findAll", qp, "ExpressError400",
                                 <<>>, <<>>))
          ELSE \E out \in FindAllOutcomes("Company.findAll", qp, companies,
                                          stmt) :
                  Finish(p, out)
    /\ UNCHANGED <<companies, jobs, nextId, fkPolicy>>

-----------------------------------------------------------------------------
(* The search specification: the store holds any content the tables admit  *)
(* and one search call has been received.                                  *)

SearchTitles == {<<"j">>, <<"J", "x">>}
SearchSalaries == {Null, Num(1), Num(2)}
Equities == {Null, Num(0), Num(5)}

SearchJobTuples ==
    [title : {Str(s) : s \in SearchTitles}, salary : SearchSalaries,
     equity : Equities, company_handle : {H1}]

WithId(tp, n) ==
    [id |-> Num(n), title |-> tp.title, salary |-> tp.salary,
     equity |-> tp.equity, company_handle |-> tp.company_handle]

\* the rows of a jobs table holding the tuples T, ids 1..|T|
JobsOf(T) ==
    LET f == CHOOSE g \in [T -> 1..Cardinality(T)] :
                 \A a, b \in T : a # b => g[a] # g[b]
    IN {WithId(tp, f[tp]) : tp \in T}

SearchJobStores ==
    {JobsOf(T) : T \in {U \in SUBSET SearchJobTuples :
                            Cardinality(U) <= MaxSearchJobs}}

SearchNames == {<<"a">>, <<"B", "a">>}
SearchEmployees == {Null, Num(0), Num(2)}

CompanyRow(h, n, d, e, l) ==
    [handle |-> h, name |-> n, description |-> d, num_employees |-> e,
     logo_url |-> l]

SearchCompanyStores ==
    LET Opt == {<<>>} \cup (SearchNames \X SearchEmployees)
    IN {{CompanyRow(h, Str(f[h][1]), Str(<<"d">>), f[h][2], Null) :
            h \in {x \in Handles : f[x] # <<>>}} :
          f \in [Handles -> Opt]}

TextArgs == {Undef, Str(<<>>), Str(<<"j">>), Str(<<"x">>)}
NameArgs == {Undef, Str(<<>>), Str(<<"a">>), Str(<<"b">>)}
SalaryArgs == {Undef, Num(0), Num(2), Str(<<"0">>), Str(<<"2">>)}
EquityArgs == {Undef, Bool(TRUE), Bool(FALSE), Str(sTrue), Str(sFalse)}
EmployeeArgs == {Undef, Num(0), Num(1), Num(2), Str(<<"0">>), Str(<<"2">>)}

JobSearchCalls ==
    {Call("Job.findAll", qp) :
        qp \in [title : TextArgs, minSalary : SalaryArgs, equity : EquityArgs]}
    \cup
    {Call("Job.findAll/hasEquity", qp) :
        qp \in [title : TextArgs, minSalary : SalaryArgs,
                hasEquity : EquityArgs]}
    \cup
    {Call("GET /jobs", q) :
        q \in [title : {x \in TextArgs : x.t # "str" \/ x.v # <<>>} ,
               minSalary : {x \in SalaryArgs : x.t # "num"},
               equity : {x \in EquityArgs : x.t # "bool"}]}

CompanySearchCalls ==
    {Call("Company.findAll", qp) :
        qp \in [nameLike : NameArgs, minEmployees : EmployeeArgs,
                maxEmployees : EmployeeArgs]}

SearchInit ==
    /\ \/ /\ companies = {CompanyRow(H1, Str(<<"a">>), Str(<<"d">>), Null, Null)}
          /\ jobs \in SearchJobStores
          /\ pending \in {[s \in Slots |-> IF s = 1 THEN c ELSE Idle] :
                            c \in JobSearchCalls}
       \/ /\ companies \in SearchCompanyStores
          /\ jobs = {}
          /\ pending \in {[s \in Slots |-> IF s = 1 THEN c ELSE Idle] :
                            c \in CompanySearchCalls}
    /\ nextId = Cardinality(jobs) + 1
    /\ fkPolicy = "cascade"
    /\ last = NoCall

SearchNext ==
    \E p \in Slots :
        \/ JobFindAll(p)
        \/ JobFindAllVariant(p)
        \/ RouteGetJobs(p)
        \/ CompanyFindAll(p)

SpecSearch == SearchInit /\ [][SearchNext]_vars


-----------------------------------------------------------------------------
(* Properties of search.                                                   *)

JobSearchOps == {"Job.findAll", "Job.findAll/hasEquity", "GET /jobs"}

\* the equity criterion of a completed job search
EquityCriterion(out) ==
    IF out.op = "Job.findAll/hasEquity" THEN out.args.hasEquity
    ELSE out.args.equity

ReturnedIds(out) == {out.ret[i].id : i \in DOMAIN out.ret}

SameButEquity(r1, r2) ==
    /\ r1.title = r2.title /\ r1.salary = r2.salary
    /\ r1.company_handle = r2.company_handle

\* a result is unfiltered on equity when rows that differ in equity (and id)
\* only are returned together or not at all
UnfilteredOnEquity(out) ==
    \A r1, r2 \in jobs :
        SameButEquity(r1, r2) => (r1.id \in ReturnedIds(out) <=> r2.id \in ReturnedIds(out))

ReturnedJobs(out) == {r \in jobs : r.id \in ReturnedIds(out)}

\* C1: a job search filters on equity in three ways: criterion absent, the
\* result is not filtered on equity; the true flag, only rows with equity > 0
\* are returned; the false flag, only rows with equity = 0 are returned.
C1_EquityTriState ==
    (last.op \in JobSearchOps /\ last.err = "none") =>
        LET e == EquityCriterion(last)
        IN /\ e = Undef => UnfilteredOnEquity(last)
           /\ e \in {Bool(TRUE), Str(sTrue)} =>
                 \A r \in ReturnedJobs(last) : r.equity.t = "num" /\ r.equity.v > 0
           /\ e \in {Bool(FALSE), Str(sFalse)} =>
                 \A r \in ReturnedJobs(last) : r.equity.t = "num" /\ r.equity.v = 0

\* the rows a search on title and minSalary alone selects
RowsWithoutEquityCriterion(out) ==
    LET qp == [title |-> out.args.title, minSalary |-> out.args.minSalary,
               equity |-> Undef]
        b == JobFindAllBuild(qp)
    IN DbSelect(jobs, b.conditions, b.values)

\* C2: Job.findAll with the equity criterion false (the boolean false given
\* to the model, or GET /jobs?equity=false) returns the rows of the same
\* call without an equity criterion: rows with equity 0 and rows with
\* equity > 0 alike.
C2_EquityFalseIsNoFilter ==
    (/\ last.op \in {"Job.findAll", "GET /jobs"}
     /\ last.args.equity \in {Bool(FALSE), Str(sFalse)}) =>
        /\ last.err = "none"
        /\ UnfilteredOnEquity(last)
        /\ ReturnedJobs(last) = RowsWithoutEquityCriterion(last)
        /\ Len(last.ret) = Cardinality(ReturnedJobs(last))

\* C2 witness: Job.findAll({equity: false}) has returned both a row with
\* equity 0 and a row with positive equity.
C2_Witness ==
    /\ last.op = "Job.findAll" /\ last.args.equity = Bool(FALSE)
    /\ \E r \in ReturnedJobs(last) : r.equity = Num(0)
    /\ \E r \in ReturnedJobs(last) : r.equity = Num(5)

\* the integer a range criterion stands for (a number, or a string of digits)
EmployeesOf(x) == PgNum(x).v

RangeContradicts(qp) ==
    /\ qp.minEmployees # Undef /\ qp.maxEmployees # Undef
    /\ EmployeesOf(qp.minEmployees) >= EmployeesOf(qp.maxEmployees)

\* C5: Company.findAll fails with the invalid-range error whenever both
\* minEmployees and maxEmployees are present and min >= max (equal values and
\* 0 included), before any query is sent; otherwise no range error is raised.
C5_InvalidRange ==
    last.op = "Company.findAll" =>
        IF RangeContradicts(last.args)
        THEN last.err = "ExpressError400" /\ last.stmts = <<>>
        ELSE last.err # "ExpressError400"


-----------------------------------------------------------------------------
(* Repository calls as actions: slot p serves call c.  A handler runs to   *)
(* its end in one step, except the two create handlers, which send two     *)
(* statements and can be overtaken between them.                           *)

Serve(p, results) == \E res \in results : Apply(p, res)

JobGetCall(p, c) ==
    c.op = "Job.get" /\ Serve(p, JobGet(c.args.key, Cur))

JobGetVariantCall(p, c) ==
    c.op = "Job.get/nojoin" /\ Serve(p, JobGetVariant(c.args.key, Cur))

CompanyGetCall(p, c) ==
    c.op = "Company.get" /\ Serve(p, CompanyGet(c.args.key, Cur))

JobUpdateCall(p, c) ==
    c.op = "Job.update" /\ Serve(p, JobUpdate(c.args.key, c.args.data, Cur))

CompanyUpdateCall(p, c) ==
    /\ c.op = "Company.update"
    /\ Serve(p, CompanyUpdate(c.args.key, c.args.data, Cur))

JobRemoveCall(p, c) ==
    c.op = "Job.remove" /\ Serve(p, JobRemove(c.args.key, Cur))

CompanyRemoveCall(p, c) ==
    c.op = "Company.remove" /\ Serve(p, CompanyRemove(c.args.key, Cur))

JobCreateVariantCall(p, c) ==
    c.op = "Job.create/nocheck" /\ Serve(p, JobCreateVariant(c.args, Cur))

\* the call has sent its duplicate check and goes on to the INSERT
Inserting(op, data, stmt) ==
    [pc |-> "insert", op |-> op, args |-> data, stmts |-> <<stmt>>]

\* Job.create up to the answer of the duplicate check
JobCreateCheck(p, c) ==
    /\ c.op = "Job.create"
    /\ IF JobIsDuplicate(c.args, Cur)
       THEN Serve(p, {Reads(Outcome("Job.create", c.args, "BadRequestError",
                                    <<>>, <<JobDupCheckStmt(c.args)>>), Cur)})
       ELSE /\ pending' = [pending EXCEPT ![p] =
                              Inserting("Job.create", c.args, JobDupCheckStmt(c.args))]
            /\ UNCHANGED <<companies, jobs, nextId, fkPolicy, last>>

\* Job.create from the INSERT on
JobCreateInsert(p) ==
    /\ pending[p].pc = "insert" /\ pending[p].op = "Job.create"
    /\ Serve(p, JobInsert("Job.create", pending[p].args, pending[p].stmts, Cur))

\* Company.create up to the answer of the duplicate check
CompanyCreateCheck(p, c) ==
    /\ c.op = "Company.create"
    /\ IF CompanyIsDuplicate(c.args, Cur)
       THEN Serve(p, {Reads(Outcome("Company.create", c.args, "BadRequestError",
                                    <<>>, <<CompanyDupCheckStmt(c.args)>>), Cur)})
       ELSE /\ pending' = [pending EXCEPT ![p] =
                              Inserting("Company.create", c.args,
                                        CompanyDupCheckStmt(c.args))]
            /\ UNCHANGED <<companies, jobs, nextId, fkPolicy, last>>

\* Company.create from the INSERT on
CompanyCreateInsert(p) ==
    /\ pending[p].pc = "insert" /\ pending[p].op = "Company.create"
    /\ Serve(p, CompanyInsert(pending[p].args, pending[p].stmts, Cur))

-----------------------------------------------------------------------------
(* The call specification: the store holds any content the tables admit    *)
(* (unique keys, every job naming an existing company) and one call of a   *)
(* repository method has been received.                                    *)

\* mappings of at most MaxFields distinct fields, in every insertion order
Mappings(pairs) ==
    {d \in UNION {[1..n -> pairs] : n \in 0..MaxFields} :
        \A i, j \in DOMAIN d : i # j => d[i].k # d[j].k}

Pair(k, v) == [k |-> k, v |-> v]

CompanyUpdatePairs ==
    {Pair("name", Str(<<"b">>)), Pair("description", Str(<<"e">>)),
     Pair("numEmployees", Null), Pair("numEmployees", Num(3)),
     Pair("logoUrl", Null)}

JobUpdatePairs ==
    {Pair("title", Str(<<"x">>)), Pair("salary", Null), Pair("salary", Num(2)),
     Pair("equity", Null), Pair("equity", Num(0))}

CompanyData(h, n, e, l) ==
    [handle |-> h, name |-> n, description |-> Str(<<"d">>),
     numEmployees |-> e, logoUrl |-> l]

LogoU == Str(<<"u">>)

\* rows of company c1 / the one row of company c2
C1Rows ==
    {CompanyRow(H1, Str(n), Str(<<"d">>), e, l) :
        n \in {<<"a">>, <<"b">>}, e \in {Null, Num(2)}, l \in {Null, LogoU}}

C2Row == CompanyRow(H2, Str(<<"a">>), Str(<<"d">>), Num(2), LogoU)

C1Row == CompanyRow(H1, Str(<<"a">>), Str(<<"d">>), Num(2), LogoU)

JobTuple(t, sal, eq, h) ==
    [title |-> Str(t), salary |-> sal, equity |-> eq, company_handle |-> h]

\* a jobs table of at most MaxJobs rows drawn from T, ids 1..n
JobTables(T) ==
    {{WithId(f[i], i) : i \in DOMAIN f} :
        f \in UNION {[1..n -> T] : n \in 0..MaxJobs}}

CompanyCalls ==
    {Call("Company.get", KeyArgs(h)) : h \in Handles}
    \cup {Call("Company.remove", KeyArgs(h)) : h \in Handles}
    \cup {Call("Company.update", UpdateArgs(h, d)) :
            h \in Handles, d \in Mappings(CompanyUpdatePairs)}
    \cup {Call("Company.create", CompanyData(h, Str(<<"a">>), e, l)) :
            h \in Handles, e \in {Null, Num(2)}, l \in {Null, LogoU}}

JobTuples ==
    {JobTuple(<<"j">>, Num(1), Num(5), H1), JobTuple(<<"x">>, Num(1), Num(5), H1),
     JobTuple(<<"j">>, Null, Num(5), H1), JobTuple(<<"j">>, Num(1), Null, H1),
     JobTuple(<<"j">>, Num(1), Num(5), H2)}

H3 == Str(<<"c", "3">>)

JobIds == {Num(i) : i \in 1..(MaxJobs + 1)}

JobCalls ==
    {Call(op, KeyArgs(i)) :
        op \in {"Job.get", "Job.get/nojoin", "Job.remove"}, i \in JobIds}
    \cup {Call("Job.update", UpdateArgs(i, d)) :
            i \in JobIds, d \in Mappings(JobUpdatePairs)}
    \cup {Call(op, tp) :
            op \in {"Job.create", "Job.create/nocheck"},
            tp \in JobTuples \cup {JobTuple(<<"j">>, Num(1), Num(5), H3)}}

OneCall(calls) == {[s \in Slots |-> IF s = 1 THEN c ELSE Idle] : c \in calls}

CallInit ==
    /\ \/ /\ companies \in {a \cup b : a \in {{}} \cup {{r} : r \in C1Rows},
                                      b \in {{}, {C2Row}}}
          /\ jobs \in JobTables({JobTuple(<<"j">>, Num(1), Num(0), c.handle) :
                                    c \in companies})
          /\ fkPolicy \in {"cascade", "restrict"}
          /\ pending \in OneCall(CompanyCalls)
       \/ /\ companies = {C1Row, C2Row}
          /\ jobs \in JobTables(JobTuples)
          /\ fkPolicy = "cascade"
          /\ pending \in OneCall(JobCalls)
    /\ nextId = Cardinality(jobs) + 1
    /\ last = NoCall

\* slot p has received a call and not yet served it
Received(p) == pending[p].pc = "call"

CallNext ==
    \/ \E p \in Slots : Received(p) /\ JobGetCall(p, pending[p])
    \/ \E p \in Slots : Received(p) /\ JobGetVariantCall(p, pending[p])
    \/ \E p \in Slots : Received(p) /\ CompanyGetCall(p, pending[p])
    \/ \E p \in Slots : Received(p) /\ JobUpdateCall(p, pending[p])
    \/ \E p \in Slots : Received(p) /\ CompanyUpdateCall(p, pending[p])
    \/ \E p \in Slots : Received(p) /\ JobRemoveCall(p, pending[p])
    \/ \E p \in Slots : Received(p) /\ CompanyRemoveCall(p, pending[p])
    \/ \E p \in Slots : Received(p) /\ JobCreateVariantCall(p, pending[p])
    \/ \E p \in Slots : Received(p) /\ JobCreateCheck(p, pending[p])
    \/ \E p \in Slots : Received(p) /\ CompanyCreateCheck(p, pending[p])
    \/ \E p \in Slots : JobCreateInsert(p)
    \/ \E p \in Slots : CompanyCreateInsert(p)

SpecCall == CallInit /\ [][CallNext]_vars


-----------------------------------------------------------------------------
(* The repository at work: the store starts empty, calls are received and  *)
(* served one after another; a create that has sent its duplicate check    *)
(* may be overtaken by the calls received after it.                        *)

LifeCalls ==
    {Call("Company.create", CompanyData(h, Str(<<"a">>), Null, Null)) : h \in Handles}
    \cup {Call("Company.create", CompanyData(H1, Str(<<"b">>), Num(2), LogoU))}
    \cup {Call("Job.create", tp) :
            tp \in {JobTuple(<<"j">>, Num(1), Num(5), H1),
                    JobTuple(<<"j">>, Num(1), Num(5), H2)}}
    \cup {Call("Company.remove", KeyArgs(h)) : h \in Handles}
    \cup {Call("Job.remove", KeyArgs(Num(1))), Call("Company.get", KeyArgs(H1)),
          Call("Job.get", KeyArgs(Num(1))),
          Call("Company.update", UpdateArgs(H1, <<Pair("handle", H2)>>)),
          Call("Job.update", UpdateArgs(Num(1), <<Pair("company_handle", H2)>>))}

\* the first free slot can take up call c (slots are interchangeable); the
\* id sequence is kept within the bound of the model
Admits(p, c) ==
    /\ pending[p] = Idle
    /\ \A q \in Slots : q < p => pending[q] # Idle
    /\ c.op \in {"Job.create", "Job.create/nocheck"} =>
          nextId + Cardinality({q \in Slots : pending[q].pc = "insert"
                                              /\ pending[q].op = "Job.create"})
             <= MaxJobs

Init ==
    /\ companies = {}
    /\ jobs = {}
    /\ nextId = 1
    /\ fkPolicy \in {"cascade", "restrict"}
    /\ pending = [s \in Slots |-> Idle]
    /\ last = NoCall

Next ==
    \/ \E p \in Slots, c \in LifeCalls : Admits(p, c) /\ JobGetCall(p, c)
    \/ \E p \in Slots, c \in LifeCalls : Admits(p, c) /\ CompanyGetCall(p, c)
    \/ \E p \in Slots, c \in LifeCalls : Admits(p, c) /\ JobUpdateCall(p, c)
    \/ \E p \in Slots, c \in LifeCalls : Admits(p, c) /\ CompanyUpdateCall(p, c)
    \/ \E p \in Slots, c \in LifeCalls : Admits(p, c) /\ JobRemoveCall(p, c)
    \/ \E p \in Slots, c \in LifeCalls : Admits(p, c) /\ CompanyRemoveCall(p, c)
    \/ \E p \in Slots, c \in LifeCalls : Admits(p, c) /\ JobCreateCheck(p, c)
    \/ \E p \in Slots, c \in LifeCalls : Admits(p, c) /\ CompanyCreateCheck(p, c)
    \/ \E p \in Slots : JobCreateInsert(p)
    \/ \E p \in Slots : CompanyCreateInsert(p)

Spec == Init /\ [][Next]_vars

-----------------------------------------------------------------------------
(* Properties of update, remove, create and getByKey.                      *)

UpdateOps == {"Job.update", "Company.update"}
RemoveOps == {"Job.remove", "Company.remove"}
GetOps == {"Job.get", "Job.get/nojoin", "Company.get"}

\* slot p holds a received call of one of ops and this step ends it
Completes(p, ops) ==
    /\ pending[p].pc = "call" /\ pending[p].op \in ops
    /\ pending'[p] = Idle
    /\ last'.op = pending[p].op /\ last'.args = pending[p].args

IsJobOp(op) == op \in {"Job.update", "Job.remove", "Job.get", "Job.get/nojoin"}

\* the rows of the entity of op whose key is key
OwnerRows(op, key, cs, js) ==
    IF IsJobOp(op) THEN {r \in js : r.id = key} ELSE {r \in cs : r.handle = key}

\* the column that holds a logical field
FieldColumn(k) ==
    CASE k = "numEmployees" -> "num_employees"
      [] k = "logoUrl" -> "logo_url"
      [] OTHER -> k

KeyColumn(op) == IF IsJobOp(op) THEN "id" ELSE "handle"

\* C3: for a non-empty mapping f, update binds the value of the i-th field of
\* f to placeholder $i of the SET clause, term i naming that field's column,
\* for i = 1..len(f), and the key to $(len(f)+1), the placeholder of the
\* WHERE clause; the parameters are those len(f) values followed by the key.
C3_UpdateBindings ==
    (last.op \in UpdateOps /\ Len(last.args.data) > 0) =>
        LET f == last.args.data
            stmt == last.stmts[1]
        IN /\ Len(last.stmts) = 1
           /\ stmt.kind = "update"
           /\ Len(stmt.set) = Len(f)
           /\ Len(stmt.params) = Len(f) + 1
           /\ \A i \in 1..Len(f) :
                 /\ stmt.set[i] = SetTerm(FieldColumn(f[i].k), i)
                 /\ stmt.params[i] = f[i].v
           /\ stmt.params[Len(f) + 1] = last.args.key
           /\ stmt.conds = <<Cond(KeyColumn(last.op), "=", Len(f) + 1, 0)>>
           /\ last.err \in {"none", "NotFoundError"}

\* C3 witness: an update naming two fields has changed a row.
C3_Witness ==
    /\ last.op \in UpdateOps /\ Len(last.args.data) = 2 /\ last.err = "none"
    /\ last.args.data[1].k = "salary"

\* C4: an update with an empty mapping fails with BadRequestError whether or
\* not the key exists, sends no statement and leaves the store as it was.
C4_EmptyUpdateFails ==
    [][\A p \in Slots :
          (/\ pending[p].pc = "call" /\ pending[p].op \in UpdateOps
           /\ Len(pending[p].args.data) = 0
           /\ pending'[p] # pending[p])
          => /\ Completes(p, UpdateOps)
             /\ last'.err = "BadRequestError"
             /\ last'.stmts = <<>>
             /\ companies' = companies /\ jobs' = jobs /\ nextId' = nextId]_vars

\* C4 witness: an update with no field, for a key that exists, has failed.
C4_Witness ==
    /\ last.op = "Job.update" /\ last.args.data = <<>>
    /\ last.err = "BadRequestError"
    /\ \E r \in jobs : r.id = last.args.key

\* the store holds a job with the full tuple of data
HoldsTuple(js, data) ==
    \E r \in js :
        /\ r.title = data.title /\ r.salary = data.salary
        /\ r.equity = data.equity /\ r.company_handle = data.company_handle

\* C6: Job.create called when the store holds a job with the same tuple
\* (title, salary, equity, company handle; salary or equity may be null)
\* fails with BadRequestError and inserts nothing.
C6_DuplicateJobRejected ==
    [][\A p \in Slots :
          (/\ pending[p].pc = "call"
           /\ pending[p].op = "Job.create"
           /\ HoldsTuple(jobs, pending[p].args)
           /\ pending'[p] # pending[p])
          => /\ pending'[p] = Idle
             /\ last'.err = "BadRequestError"
             /\ jobs' = jobs]_vars

\* C7: when Company.create of a handle not in the store has succeeded,
\* Company.get of that handle returns the created handle, name, description,
\* numEmployees and logoUrl (null ones included) and an empty jobs list.
C7_CompanyRoundTrip ==
    [][\A p \in Slots :
          (/\ pending[p].pc = "insert" /\ pending[p].op = "Company.create"
           /\ pending'[p] = Idle
           /\ last'.err = "none")
          => LET d == pending[p].args
             IN \A g \in CompanyGet(d.handle,
                                    Store(companies', jobs', nextId', fkPolicy')) :
                   /\ g.out.err = "none"
                   /\ g.out.ret =
                        [handle |-> d.handle, name |-> d.name,
                         description |-> d.description,
                         numEmployees |-> d.numEmployees,
                         logoUrl |-> d.logoUrl, jobs |-> <<>>]]_vars

\* C7 witness: a company with null numEmployees and logoUrl has been created.
C7_Witness ==
    /\ last.op = "Company.create" /\ last.err = "none"
    /\ last.args.numEmployees = Null /\ last.args.logoUrl = Null
    /\ \E c \in companies : c.handle = last.args.handle


\* the value of field k of mapping f
Given(f, k) == f[CHOOSE i \in DOMAIN f : f[i].k = k].v

Names(f, k) == \E i \in DOMAIN f : f[i].k = k

\* row r with the columns of the fields named in f set to the given values
RowWith(r, f) ==
    [c \in DOMAIN r |->
        IF \E i \in DOMAIN f : FieldColumn(f[i].k) = c
        THEN f[CHOOSE i \in DOMAIN f : FieldColumn(f[i].k) = c].v
        ELSE r[c]]

\* the object of a getByKey with the fields named in f replaced by the given
\* values, as given / as the store renders them (equity as a decimal string)
ObjectWithGiven(obj, f) ==
    [k \in DOMAIN obj |-> IF Names(f, k) THEN Given(f, k) ELSE obj[k]]

ObjectWithStored(obj, f) ==
    [k \in DOMAIN obj |->
        IF Names(f, k)
        THEN IF k = "equity" THEN NumericOut(Given(f, k)) ELSE Given(f, k)
        ELSE obj[k]]

GetByKey(op, key, st) ==
    IF IsJobOp(op) THEN JobGet(key, st) ELSE CompanyGet(key, st)

\* the store changed by exactly the fields of f on the one row with the key
OnlyNamedFieldsChange(op, key, f) ==
    LET rows == OwnerRows(op, key, companies, jobs)
        r == CHOOSE x \in rows : TRUE
    IN /\ Cardinality(rows) = 1
       /\ nextId' = nextId
       /\ IF IsJobOp(op)
          THEN jobs' = (jobs \ {r}) \cup {RowWith(r, f)} /\ companies' = companies
          ELSE companies' = (companies \ {r}) \cup {RowWith(r, f)} /\ jobs' = jobs

\* C8 as stated: a successful update changes only the named fields of the one
\* row with the key, and a getByKey after it returns the object a getByKey
\* before it returned with the named fields replaced by the given values.
C8_UpdateFrameAsGiven ==
    [][\A p \in Slots :
          (Completes(p, UpdateOps) /\ last'.err = "none")
          => LET op == pending[p].op
                 key == pending[p].args.key
                 f == pending[p].args.data
                 before == GetByKey(op, key, Cur)
                 after == GetByKey(op, key, Store(companies', jobs', nextId', fkPolicy'))
             IN /\ OnlyNamedFieldsChange(op, key, f)
                /\ \A g \in after : \E g0 \in before :
                      /\ g.out.err = "none" /\ g0.out.err = "none"
                      /\ g.out.ret = ObjectWithGiven(g0.out.ret, f)]_vars

\* C8 amended: a successful update changes only the named fields of the one
\* row with the key; every other field, row and table is unchanged, and a
\* getByKey after it returns the object a getByKey before it returned with
\* the named fields replaced by the given values as the store renders them
\* (a job's equity reads back as a decimal string).
C8_UpdateFrame ==
    [][\A p \in Slots :
          (Completes(p, UpdateOps) /\ last'.err = "none")
          => LET op == pending[p].op
                 key == pending[p].args.key
                 f == pending[p].args.data
                 before == GetByKey(op, key, Cur)
                 after == GetByKey(op, key, Store(companies', jobs', nextId', fkPolicy'))
             IN /\ OnlyNamedFieldsChange(op, key, f)
                /\ \A g \in after : \E g0 \in before :
                      /\ g.out.err = "none" /\ g0.out.err = "none"
                      /\ g.out.ret = ObjectWithStored(g0.out.ret, f)
                /\ \A g0 \in before : \E g \in after :
                      g.out.ret = ObjectWithStored(g0.out.ret, f)]_vars

\* C8 witness: an update of a job's equity has succeeded while the table
\* holds another job.
C8_Witness ==
    /\ last.op = "Job.update" /\ last.err = "none"
    /\ Names(last.args.data, "equity")
    /\ Cardinality(jobs) = 2

Unchanged == companies' = companies /\ jobs' = jobs /\ nextId' = nextId

\* what C9 says of every update (non-empty mapping) and remove but the
\* removal of an existing company
NotFoundIffNoRow(p) ==
    LET op == pending[p].op
        key == pending[p].args.key
        rows == OwnerRows(op, key, companies, jobs)
    IN /\ last'.err = "NotFoundError" <=> rows = {}
       /\ rows = {} => Unchanged
       /\ op \in UpdateOps =>
             /\ {r.id : r \in jobs'} = {r.id : r \in jobs}
             /\ {r.handle : r \in companies'} = {r.handle : r \in companies}
       /\ (op = "Job.remove" /\ rows # {}) =>
             /\ last'.err = "none"
             /\ jobs' = jobs \ rows /\ companies' = companies

UpdatesOrRemoves(p) ==
    /\ Completes(p, UpdateOps \cup RemoveOps)
    /\ pending[p].op \in UpdateOps => Len(pending[p].args.data) > 0

\* C9 as stated: update (non-empty mapping) and remove fail with
\* NotFoundError exactly when no row has the key, and then change nothing;
\* update never creates a row; remove of an existing row deletes that row
\* and only that row.
C9_NotFoundAndRemoveAsGiven ==
    [][\A p \in Slots :
          UpdatesOrRemoves(p)
          => /\ NotFoundIffNoRow(p)
             /\ LET rows == OwnerRows(pending[p].op, pending[p].args.key,
                                      companies, jobs)
                IN (pending[p].op = "Company.remove" /\ rows # {}) =>
                      /\ last'.err = "none"
                      /\ companies' = companies \ rows /\ jobs' = jobs]_vars

\* C9 amended: as stated, except for Company.remove of a company that jobs
\* still reference, which the store decides: it refuses the DELETE (a store
\* error, nothing changes) or deletes the company together with exactly the
\* jobs that reference it.
C9_NotFoundAndRemove ==
    [][\A p \in Slots :
          UpdatesOrRemoves(p)
          => /\ NotFoundIffNoRow(p)
             /\ LET rows == OwnerRows(pending[p].op, pending[p].args.key,
                                      companies, jobs)
                    refs == {j \in jobs : j.company_handle = pending[p].args.key}
                IN (pending[p].op = "Company.remove" /\ rows # {}) =>
                      \/ /\ last'.err = "none"
                         /\ companies' = companies \ rows
                         /\ jobs' = jobs \ refs
                      \/ /\ refs # {}
                         /\ last'.err = "StoreError"
                         /\ Unchanged]_vars

\* C9 witness: the store has refused to remove a company that has jobs.
C9_Witness ==
    /\ last.op = "Company.remove" /\ last.err = "StoreError"
    /\ \E j \in jobs : j.company_handle = last.args.key

\* C10: getByKey fails with NotFoundError, and with no other error, exactly
\* when no row of the owner table has the key.
C10_GetNotFound ==
    last.op \in GetOps =>
        /\ last.err \in {"none", "NotFoundError"}
        /\ last.err = "NotFoundError" <=>
              OwnerRows(last.op, last.args.key, companies, jobs) = {}

-----------------------------------------------------------------------------
(* Null against omitted fields in update.                                  *)

\* the fields of the entity of op that the data model declares nullable
NullableFields(op) ==
    IF IsJobOp(op) THEN {"salary", "equity"} ELSE {"numEmployees", "logoUrl"}

\* mapping f without field k
Without(f, k) == SelectSeq(f, LAMBDA e : e.k # k)

Update(op, key, f, st) ==
    IF IsJobOp(op) THEN JobUpdate(key, f, st) ELSE CompanyUpdate(key, f, st)

\* the rows with the key in the store of result res
RowsIn(op, key, res) == OwnerRows(op, key, res.companies, res.jobs)

\* C11: a successful update that gives a nullable field the value null sets
\* that column to null on the row, while the update that omits the field
\* leaves the column's previous value; from the same state the two updates
\* lead to different stores whenever the previous value was not null.
C11_NullVersusOmitted ==
    [][\A p \in Slots :
          (Completes(p, UpdateOps) /\ last'.err = "none")
          => LET op == pending[p].op
                 key == pending[p].args.key
                 f == pending[p].args.data
                 old == CHOOSE r \in OwnerRows(op, key, companies, jobs) : TRUE
                 new == CHOOSE r \in OwnerRows(op, key, companies', jobs') : TRUE
             IN \A k \in NullableFields(op) :
                   /\ (Names(f, k) /\ Given(f, k) = Null) =>
                         /\ new[FieldColumn(k)] = Null
                         /\ \A res \in Update(op, key, Without(f, k), Cur) :
                               /\ \A r \in RowsIn(op, key, res) :
                                     r[FieldColumn(k)] = old[FieldColumn(k)]
                               /\ old[FieldColumn(k)] # Null =>
                                     <<res.companies, res.jobs>> #
                                        <<companies', jobs'>>
                   /\ ~Names(f, k) => new[FieldColumn(k)] = old[FieldColumn(k)]]_vars

\* C11 witness: an update naming salary with the value null and not naming
\* equity has succeeded on a job whose equity is not null.
C11_Witness ==
    /\ last.op = "Job.update" /\ last.err = "none"
    /\ Names(last.args.data, "salary") /\ Given(last.args.data, "salary") = Null
    /\ ~Names(last.args.data, "equity")
    /\ \E r \in jobs : r.id = last.args.key /\ r.salary = Null /\ r.equity # Null

-----------------------------------------------------------------------------
(* Uniqueness of the company handle under interleaved Company.create.      *)

HandleUnique ==
    \A c1, c2 \in companies : c1.handle = c2.handle => c1 = c2

HandleInStore(h) == \E c \in companies : c.handle = h

\* this step is a Company.create that ends at its duplicate check
CompanyCheckFails ==
    pending' = pending /\ last' # last /\ last'.op = "Company.create"

\* this step sends slot p's Company.create on to its INSERT
CompanyCheckPasses(p) ==
    /\ pending[p] = Idle
    /\ pending'[p].pc = "insert" /\ pending'[p].op = "Company.create"

\* this step is the INSERT of slot p's Company.create
CompanyInsertEnds(p) ==
    /\ pending[p].pc = "insert" /\ pending[p].op = "Company.create"
    /\ pending'[p] = Idle

\* a Company.create that finds its handle in the store at its duplicate check
\* fails with BadRequestError and changes nothing; otherwise it goes on to the
\* INSERT, which adds the row when the handle is still free
CompanyCreateChecked ==
    /\ CompanyCheckFails =>
          /\ last'.err = "BadRequestError"
          /\ HandleInStore(last'.args.handle)
          /\ Unchanged
    /\ \A p \in Slots :
          /\ CompanyCheckPasses(p) =>
                ~HandleInStore(pending'[p].args.handle) /\ Unchanged
          /\ (CompanyInsertEnds(p) /\ ~HandleInStore(pending[p].args.handle)) =>
                /\ last'.err = "none"
                /\ \E c \in companies' :
                      c.handle = pending[p].args.handle /\ companies' = companies \cup {c}
                /\ jobs' = jobs

\* C12 as stated: at most one company row per handle in every reachable
\* state, and every Company.create for a handle in the store, the one whose
\* handle was inserted after its duplicate check included, fails with
\* BadRequestError and changes nothing.
C12_HandleUniqueAsGiven ==
    /\ []HandleUnique
    /\ [][/\ CompanyCreateChecked
          /\ \A p \in Slots :
                (CompanyInsertEnds(p) /\ HandleInStore(pending[p].args.handle)) =>
                   last'.err = "BadRequestError" /\ Unchanged]_vars

\* C12 amended: at most one company row per handle in every reachable state;
\* a Company.create whose duplicate check finds the handle fails with
\* BadRequestError, one whose handle is inserted by another call between its
\* duplicate check and its INSERT fails with the store's error; both leave
\* the existing row and the rest of the store unchanged.
C12_HandleUnique ==
    /\ []HandleUnique
    /\ [][/\ CompanyCreateChecked
          /\ \A p \in Slots :
                (CompanyInsertEnds(p) /\ HandleInStore(pending[p].args.handle)) =>
                   last'.err = "StoreError" /\ Unchanged]_vars

\* C12 witness: a Company.create overtaken by a create of the same handle
\* with other data has been refused by the store.
C12_Witness ==
    /\ last.op = "Company.create" /\ last.err = "StoreError"
    /\ \E c \in companies : c.handle = last.args.handle /\ c.name # last.args.name

-----------------------------------------------------------------------------
(* Referential integrity of jobs.company_handle.                           *)

-----------------------------------------------------------------------------
(* Updates of a job that name other fields than title, salary and equity,  *)
(* sent to Job.update and to the jobs router.                              *)

\* the routes the jobs router registers: method and path
JobsRouter == {<<"POST", "/">>, <<"GET", "/">>}

\* PATCH /jobs/:id: the router has no route for it, so the request falls
\* through to the application's not-found answer (status 404)
RoutePatchJob(p) ==
    /\ pending[p].pc = "call" /\ pending[p].op = "PATCH /jobs/:id"
    /\ <<"PATCH", "/:id">> \notin JobsRouter
    /\ Finish(p, Outcome("PATCH /jobs/:id", pending[p].args, "NotFoundError",
                         <<>>, <<>>))
    /\ UNCHANGED <<companies, jobs, nextId, fkPolicy>>

JobPatchPairs ==
    {Pair("title", Str(<<"x">>)), Pair("salary", Num(2)),
     Pair("company_handle", H2), Pair("company_handle", H3)}

PatchCalls ==
    {Call(op, UpdateArgs(i, d)) :
        op \in {"Job.update", "PATCH /jobs/:id"},
        i \in JobIds, d \in Mappings(JobPatchPairs) \ {<<>>}}

PatchInit ==
    /\ companies = {C1Row, C2Row}
    /\ jobs \in JobTables({JobTuple(<<"j">>, Num(1), Num(5), H1),
                           JobTuple(<<"j">>, Num(1), Num(5), H2)})
    /\ fkPolicy = "cascade"
    /\ pending \in OneCall(PatchCalls)
    /\ nextId = Cardinality(jobs) + 1
    /\ last = NoCall

PatchNext ==
    \/ \E p \in Slots : Received(p) /\ JobUpdateCall(p, pending[p])
    \/ \E p \in Slots : RoutePatchJob(p)

SpecPatch == PatchInit /\ [][PatchNext]_vars

\* every job keeps its id and its company handle in this step
KeysOfJobsKept ==
    /\ \A j \in jobs : \E k \in jobs' :
          k.id = j.id /\ k.company_handle = j.company_handle
    /\ \A k \in jobs' : \E j \in jobs : k.id = j.id

\* C14: no job update changes a job's id or company handle: Job.update
\* succeeds only for mappings of title, salary and equity, and a PATCH
\* /jobs/:id of an existing job whose body names company_handle ends as a
\* bad request with the jobs unchanged.
C14_JobKeysFrozen ==
    [][\A p \in Slots :
          /\ Completes(p, {"Job.update"}) =>
                /\ KeysOfJobsKept
                /\ last'.err = "none" =>
                      \A i \in DOMAIN pending[p].args.data :
                         pending[p].args.data[i].k \in {"title", "salary", "equity"}
          /\ (/\ Completes(p, {"PATCH /jobs/:id"})
              /\ Names(pending[p].args.data, "company_handle")
              /\ \E j \in jobs : j.id = pending[p].args.key) =>
                last'.err = "BadRequestError" /\ jobs' = jobs]_vars

-----------------------------------------------------------------------------
(* Conditions and placeholders of the search statements.                   *)

\* the criteria each search recognizes, in the order it reads them
Criteria(op) ==
    IF op = "Company.findAll" THEN <<"nameLike", "minEmployees", "maxEmployees">>
    ELSE <<"title", "minSalary", "equity">>

\* the recognized criteria that are defined in the mapping qp, in order
DefinedCriteria(op, qp) == SelectSeq(Criteria(op), LAMBDA k : qp[k] # Undef)

\* last is a search of one of ops that sent its statement
Searched(ops) == last.op \in ops /\ Len(last.stmts) = 1

\* C15: a search appends exactly one condition for every recognized criterion
\* that is defined, whatever its value (0 and "" included), and none for an
\* undefined one; so with minSalary = 0 or minEmployees = 0 only rows whose
\* salary / numEmployees is not null and >= 0 are returned; WHERE is written
\* exactly when a condition was appended.
C15_OneConditionPerCriterion ==
    Searched({"Job.findAll", "Company.findAll"}) =>
        LET stmt == last.stmts[1]
            qp == last.args
        IN /\ Len(stmt.conds) = Len(DefinedCriteria(last.op, qp))
           /\ stmt.hasWhere <=> Len(stmt.conds) > 0
           /\ (last.op = "Job.findAll" /\ qp.minSalary = Num(0)
                                        /\ last.err = "none") =>
                 \A i \in DOMAIN last.ret :
                    last.ret[i].salary # Null /\ last.ret[i].salary.v >= 0
           /\ (last.op = "Company.findAll" /\ qp.minEmployees = Num(0)
                                            /\ last.err = "none") =>
                 \A i \in DOMAIN last.ret :
                    /\ last.ret[i].numEmployees # Null
                    /\ last.ret[i].numEmployees.v >= 0

\* the condition a parameterized criterion appends when it is the k-th one
CriterionCond(crit, k) ==
    CASE crit = "title" -> Cond("title", "ILIKE", k, 0)
      [] crit = "minSalary" -> Cond("salary", ">=", k, 0)
      [] crit = "nameLike" -> Cond("name", "ILIKE", k, 0)
      [] crit = "minEmployees" -> Cond("num_employees", ">=", k, 0)
      [] crit = "maxEmployees" -> Cond("num_employees", "<=", k, 0)

\* the parameter a criterion passes: text criteria wrapped as %value%
CriterionParam(crit, v) ==
    IF crit \in {"title", "nameLike"} THEN LikeParam(v) ELSE v

\* C16: in the statement of a search the placeholders of the WHERE clause
\* are exactly $1..$n, n the length of the values list; the k-th
\* parameterized condition, the criteria taken in their fixed order, uses $k
\* and values[k] is that criterion's parameter (text wrapped as %value%); the
\* equity condition carries no placeholder and no value.
C16_SearchPlaceholders ==
    Searched({"Job.findAll", "Company.findAll"}) =>
        LET stmt == last.stmts[1]
            qp == last.args
            withPh == SelectSeq(stmt.conds, LAMBDA c : c.ph # 0)
            noPh == SelectSeq(stmt.conds, LAMBDA c : c.ph = 0)
        IN /\ Placeholders(stmt.conds) = 1..Len(stmt.params)
           /\ Len(withPh) = Len(stmt.params)
           /\ \E S \in SUBSET {"title", "minSalary", "nameLike",
                               "minEmployees", "maxEmployees"} :
                 LET given == SelectSeq(Criteria(last.op), LAMBDA k : k \in S)
                 IN /\ Len(given) = Len(withPh)
                    /\ \A k \in 1..Len(given) :
                          /\ withPh[k] = CriterionCond(given[k], k)
                          /\ stmt.params[k] = CriterionParam(given[k], qp[given[k]])
           /\ \A i \in 1..Len(noPh) : noPh[i].col = "equity"
           /\ stmt.conds = withPh \o noPh

\* C16 witness: a job search with title, minSalary and the equity condition
\* has been sent.
C16_Witness ==
    /\ Searched({"Job.findAll"})
    /\ Len(last.stmts[1].conds) = 3 /\ Len(last.stmts[1].params) = 2
    /\ last.err = "none"

-----------------------------------------------------------------------------
(* The fold of the joined rows in getByKey.                                *)

\* the entry Company.get builds for job row j / Job.get builds for company c
JobEntryOf(j) ==
    [id |-> j.id, title |-> j.title, salary |-> j.salary,
     equity |-> NumericOut(j.equity), companyHandle |-> j.company_handle]

CompanyEntryOf(c) ==
    [handle |-> c.handle, name |-> c.name, description |-> c.description,
     numEmployees |-> c.num_employees, logoUrl |-> c.logo_url]

Entries(seq) == {seq[i] : i \in DOMAIN seq}

\* C17: a successful Company.get(h) returns a jobs collection with exactly
\* one entry for each job whose company handle is h (none twice, none
\* missing, empty when there is none); a successful Job.get(id) returns a
\* companies collection with exactly the one company the job references; no
\* entry comes from a joined side that is entirely null.
C17_GetFoldsJoin ==
    /\ (last.op = "Company.get" /\ last.err = "none") =>
          LET mine == {j \in jobs : j.company_handle = last.args.key}
          IN /\ Entries(last.ret.jobs) = {JobEntryOf(j) : j \in mine}
             /\ Len(last.ret.jobs) = Cardinality(mine)
             /\ last.ret.handle = last.args.key
    /\ (last.op = "Job.get" /\ last.err = "none") =>
          LET j == CHOOSE x \in jobs : x.id = last.args.key
              mine == {c \in companies : c.handle = j.company_handle}
          IN /\ Cardinality(mine) = 1
             /\ last.ret.companies = <<CompanyEntryOf(CHOOSE c \in mine : TRUE)>>
             /\ last.ret.id = last.args.key

\* C17 witness: Company.get has returned a company with two jobs.
C17_Witness ==
    /\ last.op = "Company.get" /\ last.err = "none"
    /\ Len(last.ret.jobs) = 2
    /\ Cardinality({j \in jobs : j.company_handle = last.args.key}) = 2

-----------------------------------------------------------------------------
(* Job.create: the duplicate check and the INSERT are two statements.      *)

SameTuple(j, d) ==
    /\ j.title = d.title /\ j.salary = d.salary
    /\ j.equity = d.equity /\ j.company_handle = d.company_handle

TupleInStore(d) == \E j \in jobs : SameTuple(j, d)

NoNullIn(d) == d.salary # Null /\ d.equity # Null

\* this step is a Job.create that ends at its duplicate check
JobCheckFails ==
    pending' = pending /\ last' # last /\ last'.op = "Job.create"

\* this step sends slot p's Job.create on to its INSERT
JobCheckPasses(p) ==
    /\ pending[p] = Idle
    /\ pending'[p].pc = "insert" /\ pending'[p].op = "Job.create"

\* this step is the INSERT of slot p's Job.create
JobInsertEnds(p) ==
    /\ pending[p].pc = "insert" /\ pending[p].op = "Job.create"
    /\ pending'[p] = Idle

\* C18: the duplicate check of Job.create and its INSERT are two statements.
\* A Job.create that runs after another of the same tuple has ended finds the
\* row at its check and fails with the duplicate error (BadRequestError),
\* changing nothing; a check passes only while the store does not hold the
\* tuple.  The INSERT does not look again: a call whose check has passed
\* succeeds and adds a row with a fresh id although another call has inserted
\* the same tuple in between, so the store then holds two rows that differ
\* only in id.
C18_CheckThenInsert ==
    [][/\ JobCheckFails =>
             /\ last'.err = "BadRequestError"
             /\ TupleInStore(last'.args)
             /\ Unchanged
       /\ \A p \in Slots :
             /\ JobCheckPasses(p) =>
                   /\ NoNullIn(pending'[p].args) => ~TupleInStore(pending'[p].args)
                   /\ Unchanged
             /\ (JobInsertEnds(p) /\ HandleInStore(pending[p].args.company_handle)) =>
                   /\ last'.op = "Job.create" /\ last'.err = "none"
                   /\ \E r \in jobs' :
                         /\ r.id = Num(nextId) /\ SameTuple(r, pending[p].args)
                         /\ r \notin jobs
                         /\ jobs' = jobs \cup {r}
                   /\ companies' = companies]_vars

\* C18 witness: a Job.create that passed its duplicate check has succeeded and
\* the store holds its row and another of the same tuple with another id.
C18_Witness ==
    /\ last.op = "Job.create" /\ last.err = "none"
    /\ Len(last.stmts) = 2
    /\ NoNullIn(last.args)
    /\ \E r1, r2 \in jobs :
          /\ r1.id # r2.id
          /\ SameTuple(r1, last.args) /\ SameTuple(r2, last.args)

=============================================================================
